---- MODULE Spec2Model ----
(***************************************************************************)
(* Model of the crawl-and-extract pipeline of app.py: is_valid_url,        *)
(* get_all_links, parse_xpath, extract_data and scrape_website with its    *)
(* ThreadPoolExecutor of five workers.                                     *)
(*                                                                         *)
(* Spec is the crawl while the UI and the pool themselves do not raise;     *)
(* SpecFault adds an exception raised inside the try block of lines        *)
(* 152-200, and the fairness of the threads.                               *)
(***************************************************************************)
EXTENDS Integers, Sequences, FiniteSets, TLC

(***************************************************************************)
(* Bounds of the model.                                                    *)
(***************************************************************************)
MaxPageCap == 3        \* max_pages ranges over 1..MaxPageCap in Spec
MaxSeed == 2           \* string-hash seeds that order list(set(links))
MaxFailures == 3       \* failing page fetches the network produces in Spec
WideFailures == 1      \* the same in SpecWide and SpecFault
MaxFaults == 1         \* iterations whose progress update raises in SpecFault

(***************************************************************************)
(* Program constants.                                                      *)
(***************************************************************************)
PoolWidth == 5         \* ThreadPoolExecutor(max_workers=5)
NotFound == "N/A"

(***************************************************************************)
(* URLs are strings.  urlparse splits a string into scheme, netloc and     *)
(* path; it is computed as the inverse of urlunparse over the components   *)
(* that occur in the model.                                                *)
(***************************************************************************)
Schemes == {"", "https", "http"}

Netlocs == {"", "a.com", "b.com", "a.com:8080"}

Paths == {"", "/", "/p1", "/p2", "/p3", "/p4", "/p5", "not a url", "a.com/p1"}

Components == [scheme : Schemes, netloc : Netlocs, path : Paths]

\* the paths that do not begin with a slash
Rootless == {"not a url", "a.com/p1"}

\* urlunparse puts a slash between a netloc part and a rootless path
urlunparse(c) ==
    (IF c.scheme # "" THEN c.scheme \o ":" ELSE "")
    \o (IF c.scheme # "" \/ c.netloc # ""
        THEN "//" \o c.netloc \o (IF c.path \in Rootless THEN "/" ELSE "")
        ELSE "")
    \o c.path

\* urlparse raises ValueError on an unbalanced bracket in the netloc
urlparse_raises(url) == url = "http://[a.com"

\* every URL string of the model, with its components
ParseTable ==
    [url \in {urlunparse(c) : c \in Components} |->
        CHOOSE c \in Components : urlunparse(c) = url]

urlparse(url) == ParseTable[url]

\* faulty variant: any([scheme, netloc]) instead of all
is_valid_url_any(url) ==
    IF urlparse_raises(url)
    THEN FALSE
    ELSE urlparse(url).scheme # "" \/ urlparse(url).netloc # ""

is_valid_url(url) ==
    IF urlparse_raises(url)
    THEN FALSE
    ELSE urlparse(url).scheme # "" /\ urlparse(url).netloc # ""

\* urljoin(url, href) for hrefs that are absolute, scheme-relative,
\* absolute-path or empty
urljoin(url, href) ==
    LET b == urlparse(url)
        h == urlparse(href)
    IN IF h.scheme # "" /\ h.scheme # b.scheme
       THEN href
       ELSE IF h.netloc # ""
            THEN urlunparse([scheme |-> b.scheme, netloc |-> h.netloc,
                             path |-> h.path])
            ELSE IF h.path = ""
                 THEN url
                 ELSE urlunparse([scheme |-> b.scheme, netloc |-> b.netloc,
                                  path |-> h.path])

Home == "https://a.com/"

StartURLs == {Home, "not a url", "a.com/p1", "https:///p1", "http://[a.com"}

(***************************************************************************)
(* The start page's anchors (the href of each <a>), in document order.     *)
(***************************************************************************)
PageNoLinks == << >>

PageFive == << "/p3", "/p1", "/p5", "/p2", "/p4" >>

PageMixed == << "/p2", "https://b.com/p1", "/p2", "/", "http://a.com/p1",
                "", "//b.com/p3", "https://a.com:8080/p4" >>

Pages == {PageNoLinks, PageFive, PageMixed}

(***************************************************************************)
(* list(set(links)): the iteration order of a set of strings follows the   *)
(* strings' hashes, which depend on the interpreter's hash seed.           *)
(***************************************************************************)
PathCode(p) ==
    CASE p = "/" -> 1
      [] p = "/p1" -> 2
      [] p = "/p2" -> 3
      [] p = "/p3" -> 4
      [] p = "/p4" -> 5
      [] p = "/p5" -> 6
      [] OTHER -> 0

StrHash(seed, url) ==
    ((PathCode(urlparse(url).path)
      + (IF urlparse(url).scheme = "https" THEN 0 ELSE 6)) * seed) % 13

RECURSIVE SetToList(_, _)
SetToList(S, seed) ==
    IF S = {}
    THEN << >>
    ELSE LET first == CHOOSE u \in S :
                         \A v \in S : StrHash(seed, u) <= StrHash(seed, v)
         IN << first >> \o SetToList(S \ {first}, seed)

Range(s) == {s[k] : k \in 1..Len(s)}

Take(s, n) == SubSeq(s, 1, IF n < Len(s) THEN n ELSE Len(s))

(***************************************************************************)
(* Rule sets: the selectors dict, field name -> {type, value}.             *)
(***************************************************************************)
Rule(t, v) == [type |-> t, value |-> v]

RulesTitle == ("title" :> Rule("css", "h1"))

RulesMixed == ("title" :> Rule("css", "h1"))
           @@ ("content" :> Rule("xpath", "//div[@class=\"content\"]"))
           @@ ("fallback" :> Rule("xpath", "@@garbage"))
           @@ ("other" :> Rule("regex", "h1"))

RulesUrl == ("url" :> Rule("css", "h1")) @@ ("para" :> Rule("css", "p"))

RuleSets == {RulesTitle, RulesMixed, RulesUrl}

(***************************************************************************)
(* Responses of requests.get and the documents the site serves.            *)
(***************************************************************************)
Statuses == {200, 204, 404}

Causes == {"Read timed out"}

Responses == [kind : {"http"}, status : Statuses]
             \cup [kind : {"exc"}, cause : Causes]

Failed(resp) == resp.kind = "exc" \/ resp.status # 200

Elem(t, a, x) == [tag |-> t, attrs |-> a, text |-> x]

\* BeautifulSoup(response.text, 'html.parser') of the page at url
Document(url) ==
    CASE urlparse(url).path = "/" ->
           << Elem("h1", {}, "Home"),
              Elem("div", {<<"class", "content">>}, "Welcome") >>
      [] urlparse(url).path = "/p1" ->
           << Elem("div", {}, "Sidebar"), Elem("h1", {}, "Hello"),
              Elem("div", {<<"class", "content">>}, "Body") >>
      [] urlparse(url).path = "/p2" ->
           << Elem("p", {}, "Para") >>
      [] OTHER ->
           << Elem("h1", {}, "Page"), Elem("div", {}, "Misc") >>

\* parse_xpath on the expressions of the rule sets: the regular expression
\* //(\w+)(?:\[@(\w+)="([^"]+)"\])? and the ('div', {}) fallback
parse_xpath(xpath) ==
    CASE xpath = "//h1" -> << "h1", {} >>
      [] xpath = "//div[@class=\"content\"]" ->
           << "div", {<<"class", "content">>} >>
      [] OTHER -> << "div", {} >>

\* soup.find_all(tag, attrs), in document order
find_all(soup, tag, attrs) ==
    SelectSeq(soup, LAMBDA e : e.tag = tag /\ attrs \subseteq e.attrs)

\* soup.select(value) for the tag selectors of the rule sets
select(soup, value) == find_all(soup, value, {})

None == "None"

\* faulty variant: the test "error != ''", which lets None through
TruthyNotEmpty(error) == error # ""

Truthy(error) == error # None /\ error # ""

\* the elements a rule selects (lines 117-124)
elements_of(soup, selector_info) ==
    IF selector_info.type = "css"
    THEN select(soup, selector_info.value)
    ELSE IF selector_info.type = "xpath"
         THEN find_all(soup, parse_xpath(selector_info.value)[1],
                       parse_xpath(selector_info.value)[2])
         ELSE << >>

AllNotFound(selectors) == [selector \in DOMAIN selectors |-> NotFound]

\* faulty variant: only status codes from 400 up count as failures
extract_data_4xx(url, selectors, response) ==
    IF response.kind = "exc"
    THEN [data |-> AllNotFound(selectors),
          error |-> "Error: " \o response.cause]
    ELSE IF response.status >= 400
         THEN [data |-> AllNotFound(selectors),
               error |-> "Error: HTTP " \o ToString(response.status)]
         ELSE [data |-> [selector_name \in DOMAIN selectors |->
                           IF elements_of(Document(url),
                                          selectors[selector_name]) # << >>
                           THEN elements_of(Document(url),
                                            selectors[selector_name])[1].text
                           ELSE NotFound],
               error |-> None]

\* extract_data(url, selectors), given what requests.get answers
extract_data(url, selectors, response) ==
    IF response.kind = "exc"
    THEN [data |-> AllNotFound(selectors),
          error |-> "Error: " \o response.cause]
    ELSE IF response.status # 200
         THEN [data |-> AllNotFound(selectors),
               error |-> "Error: HTTP " \o ToString(response.status)]
         ELSE [data |-> [selector_name \in DOMAIN selectors |->
                           IF elements_of(Document(url),
                                          selectors[selector_name]) # << >>
                           THEN elements_of(Document(url),
                                            selectors[selector_name])[1].text
                           ELSE NotFound],
               error |-> None]

\* faulty variant: the test of line 78 is missing
get_all_links_unfiltered(url, base_domain, response, anchors, seed) ==
    IF response.kind = "exc"
    THEN << >>
    ELSE IF response.status # 200
         THEN << >>
         ELSE SetToList({urljoin(url, anchors[k]) : k \in 1..Len(anchors)},
                        seed)

\* faulty variant: the status test of lines 67-68 is missing
get_all_links_any_status(url, base_domain, response, anchors, seed) ==
    IF response.kind = "exc"
    THEN << >>
    ELSE LET links == SelectSeq(
                        [k \in 1..Len(anchors) |-> urljoin(url, anchors[k])],
                        LAMBDA full_url :
                            urlparse(full_url).netloc = base_domain)
         IN SetToList(Range(links), seed)

\* get_all_links(url, base_domain), given what requests.get answers, the
\* anchors of the page and the hash seed
get_all_links(url, base_domain, response, anchors, seed) ==
    IF response.kind = "exc"
    THEN << >>
    ELSE IF response.status # 200
         THEN << >>
         ELSE LET links == SelectSeq(
                             [k \in 1..Len(anchors) |-> urljoin(url, anchors[k])],
                             LAMBDA full_url :
                                 urlparse(full_url).netloc = base_domain)
              IN SetToList(Range(links), seed)

(***************************************************************************)
(* State of one call of scrape_website.                                    *)
(***************************************************************************)
VARIABLES
    start_url,          \* argument: the starting URL
    selectors,          \* argument: the rule set
    max_pages,          \* argument: the page cap
    crawl_same_domain,  \* argument: follow the start page's links
    anchors,            \* environment: the hrefs on the start page
    hash_seed,          \* environment: the interpreter's string-hash seed
    flaky,              \* environment: page fetches the network may still fail
    pc,                 \* where scrape_website is
    urls_to_visit,      \* the worklist
    new_links,          \* what get_all_links returned
    total_urls,         \* len(urls_to_visit) after the cap
    futures,            \* future_to_url and the state of each future
    visited_urls,       \* URLs whose future has been yielded
    all_data,           \* records appended so far
    error_log,          \* warning lines appended so far
    progress_log,       \* the values handed to progress_bar.progress
    fetch_log,          \* every requests.get issued, in order
    link_calls,         \* number of calls of get_all_links
    link_response,      \* what the GET of get_all_links answered
    fault,              \* the exception raised in the try block, if any
    result              \* what scrape_website returned

vars == << start_url, selectors, max_pages, crawl_same_domain, anchors,
           hash_seed, flaky, pc, urls_to_visit, new_links, total_urls,
           futures, visited_urls, all_data, error_log, progress_log,
           fetch_log, link_calls, link_response, fault, result >>

args == << start_url, selectors, max_pages, crawl_same_domain, anchors,
           hash_seed >>

NoResult == [records |-> << >>, message |-> ""]

Locals ==
    /\ pc = "start"
    /\ urls_to_visit = << >>
    /\ new_links = << >>
    /\ total_urls = 0
    /\ futures = << >>
    /\ visited_urls = {}
    /\ all_data = << >>
    /\ error_log = << >>
    /\ progress_log = << >>
    /\ fetch_log = << >>
    /\ link_calls = 0
    /\ link_response = [kind |-> "none"]
    /\ fault = None
    /\ result = NoResult

\* the form of main(): any start URL, 1 <= max_pages, crawl on or off
Init ==
    /\ start_url \in StartURLs
    /\ selectors \in RuleSets
    /\ max_pages \in 1..MaxPageCap
    /\ crawl_same_domain \in BOOLEAN
    /\ anchors \in Pages
    /\ hash_seed \in 1..MaxSeed
    /\ flaky = MaxFailures
    /\ Locals

\* a page cap above the pool width, so that more pages than workers exist
InitWide ==
    /\ start_url \in StartURLs
    /\ selectors = RulesTitle
    /\ max_pages = PoolWidth + 1
    /\ crawl_same_domain \in BOOLEAN
    /\ anchors \in Pages
    /\ hash_seed = 1
    /\ flaky = WideFailures
    /\ Locals

(***************************************************************************)
(* scrape_website, lines 140-165.                                          *)
(***************************************************************************)
\* lines 140-141: the early return
ReturnInvalid ==
    /\ pc = "start"
    /\ ~ is_valid_url(start_url)
    /\ result' = [records |-> << >>, message |-> "Invalid URL provided"]
    /\ pc' = "done"
    /\ UNCHANGED << args, flaky, urls_to_visit, new_links, total_urls,
                    futures, visited_urls, all_data, error_log,
                    progress_log, fetch_log, link_calls, link_response, fault >>

\* faulty variant: the worklist starts empty instead of [start_url]
BeginEmptyWorklist ==
    /\ pc = "start"
    /\ is_valid_url(start_url)
    /\ all_data' = << >>
    /\ visited_urls' = {}
    /\ urls_to_visit' = << >>
    /\ error_log' = << >>
    /\ pc' = "collect"
    /\ UNCHANGED << args, flaky, new_links, total_urls, futures,
                    progress_log, fetch_log, link_calls, link_response, fault,
                    result >>

\* lines 143-150
Begin ==
    /\ pc = "start"
    /\ is_valid_url(start_url)
    /\ all_data' = << >>
    /\ visited_urls' = {}
    /\ urls_to_visit' = << start_url >>
    /\ error_log' = << >>
    /\ pc' = "collect"
    /\ UNCHANGED << args, flaky, new_links, total_urls, futures,
                    progress_log, fetch_log, link_calls, link_response, fault,
                    result >>

\* faulty variant: the links are walked from the last to the first
RECURSIVE AppendNewReversed(_, _)
AppendNewReversed(list, links) ==
    IF links = << >>
    THEN list
    ELSE AppendNewReversed(IF links[Len(links)] \in Range(list)
                           THEN list
                           ELSE Append(list, links[Len(links)]),
                           SubSeq(links, 1, Len(links) - 1))

\* lines 157-159: append each link that is not yet in the list
RECURSIVE AppendNew(_, _)
AppendNew(list, links) ==
    IF links = << >>
    THEN list
    ELSE AppendNew(IF Head(links) \in Range(list)
                   THEN list
                   ELSE Append(list, Head(links)),
                   Tail(links))

\* faulty variant: urls_to_visit[:max_pages + 1]
LimitOffByOne(list, n) == Take(list, n + 1)

\* faulty variant: urls_to_visit[-max_pages:]
LimitLast(list, n) ==
    SubSeq(list, IF n < Len(list) THEN Len(list) - n + 1 ELSE 1, Len(list))

\* line 162: urls_to_visit[:max_pages]
Limit(list, n) == Take(list, n)

\* lines 154-165 with crawl_same_domain: one GET of the start page
CollectLinks(response) ==
    /\ pc = "collect"
    /\ crawl_same_domain
    /\ new_links' = get_all_links(start_url, urlparse(start_url).netloc,
                                  response, anchors, hash_seed)
    /\ urls_to_visit' = Limit(AppendNew(urls_to_visit, new_links'), max_pages)
    /\ total_urls' = Len(urls_to_visit')
    /\ fetch_log' = Append(fetch_log, start_url)
    /\ link_calls' = link_calls + 1
    /\ link_response' = response
    /\ pc' = "submit"
    /\ UNCHANGED << args, fault, flaky, futures, visited_urls, all_data, error_log,
                    progress_log, result >>

\* lines 154-165 without crawl_same_domain
SkipLinks ==
    /\ pc = "collect"
    /\ ~ crawl_same_domain
    /\ urls_to_visit' = Limit(urls_to_visit, max_pages)
    /\ total_urls' = Len(urls_to_visit')
    /\ pc' = "submit"
    /\ UNCHANGED << args, flaky, new_links, futures, visited_urls, all_data,
                    error_log, progress_log, fetch_log, link_calls,
                    link_response, fault, result >>

(***************************************************************************)
(* The pool, lines 168-173, and the workers running extract_data.          *)
(***************************************************************************)
Future(url) == [url |-> url, state |-> "pending",
                response |-> [kind |-> "none"],
                result |-> [data |-> << >>, error |-> None]]

\* lines 170-173: one submit per worklist entry
Submit ==
    /\ pc = "submit"
    /\ futures' = [k \in 1..Len(urls_to_visit) |-> Future(urls_to_visit[k])]
    /\ pc' = "as_completed"
    /\ UNCHANGED << args, flaky, urls_to_visit, new_links, total_urls,
                    visited_urls, all_data, error_log, progress_log,
                    fetch_log, link_calls, link_response, fault, result >>

InState(st) == {k \in 1..Len(futures) : futures[k].state = st}

\* faulty variant: one thread per submitted work item
WorkerPerItem == Cardinality(InState("running")) < Len(futures)

\* a worker may take a work item while fewer than max_workers are busy
WorkerFree == Cardinality(InState("running")) < PoolWidth

\* the work queue is first in, first out
NextQueued(k) ==
    k \in InState("pending") /\ \A j \in InState("pending") : k <= j

\* a worker takes the next work item and issues its GET (line 106)
WorkerStart(k) ==
    /\ NextQueued(k)
    /\ WorkerFree
    /\ futures' = [futures EXCEPT ![k].state = "running"]
    /\ fetch_log' = Append(fetch_log, futures[k].url)
    /\ UNCHANGED << args, flaky, pc, urls_to_visit, new_links, total_urls,
                    visited_urls, all_data, error_log, progress_log,
                    link_calls, link_response, fault, result >>

\* faulty variant: the worker itself appends what it extracted to all_data
WorkerFinishAppends(k, response) ==
    /\ k \in InState("running")
    /\ Failed(response) => flaky > 0
    /\ flaky' = IF Failed(response) THEN flaky - 1 ELSE flaky
    /\ futures' = [futures EXCEPT
                     ![k].state = "done",
                     ![k].response = response,
                     ![k].result = extract_data(futures[k].url, selectors,
                                                response)]
    /\ all_data' = Append(all_data,
                          extract_data(futures[k].url, selectors,
                                       response).data)
    /\ UNCHANGED << args, fault, pc, urls_to_visit, new_links, total_urls,
                    visited_urls, error_log, progress_log, fetch_log,
                    link_calls, link_response, result >>

\* faulty variant: a failed GET puts the work item back in the queue
WorkerFinishRetry(k, response) ==
    /\ k \in InState("running")
    /\ Failed(response) => flaky > 0
    /\ flaky' = IF Failed(response) THEN flaky - 1 ELSE flaky
    /\ futures' = IF Failed(response)
                  THEN [futures EXCEPT ![k].state = "pending"]
                  ELSE [futures EXCEPT
                          ![k].state = "done",
                          ![k].response = response,
                          ![k].result = extract_data(futures[k].url,
                                                     selectors, response)]
    /\ UNCHANGED << args, pc, urls_to_visit, new_links, total_urls,
                    visited_urls, all_data, error_log, progress_log,
                    fetch_log, link_calls, link_response, fault, result >>

\* the GET answers or fails; extract_data returns and the future is done
WorkerFinish(k, response) ==
    /\ k \in InState("running")
    /\ Failed(response) => flaky > 0
    /\ flaky' = IF Failed(response) THEN flaky - 1 ELSE flaky
    /\ futures' = [futures EXCEPT
                     ![k].state = "done",
                     ![k].response = response,
                     ![k].result = extract_data(futures[k].url, selectors,
                                                response)]
    /\ UNCHANGED << args, pc, urls_to_visit, new_links, total_urls,
                    visited_urls, all_data, error_log, progress_log,
                    fetch_log, link_calls, link_response, fault, result >>

(***************************************************************************)
(* scrape_website, lines 176-206: the results, as they complete.           *)
(***************************************************************************)
\* data['url'] = url (line 185)
SetUrl(data, url) ==
    [name \in DOMAIN data \cup {"url"} |->
        IF name = "url" THEN url ELSE data[name]]

\* the line of line 183
WarningLine(url, error) == "Error on " \o url \o ": " \o error

\* faulty variant: the progress update sits in the branch without error
CollectProgressOnSuccess(k) ==
    /\ pc = "as_completed"
    /\ k \in InState("done")
    /\ LET url == futures[k].url
           i == Cardinality(InState("yielded"))
           data == futures[k].result.data
           error == futures[k].result.error
       IN /\ visited_urls' = visited_urls \cup {url}
          /\ error_log' = IF Truthy(error)
                          THEN Append(error_log, WarningLine(url, error))
                          ELSE error_log
          /\ all_data' = Append(all_data, SetUrl(data, url))
          /\ futures' = [futures EXCEPT ![k].state = "yielded",
                                        ![k].result.data = SetUrl(data, url)]
          /\ progress_log' = IF Truthy(error)
                             THEN progress_log
                             ELSE Append(progress_log,
                                         [num |-> i + 1, den |-> total_urls])
    /\ UNCHANGED << args, flaky, pc, urls_to_visit, new_links, total_urls,
                    fetch_log, link_calls, link_response, fault, result >>

\* faulty variant: a page with an error is logged and skipped, its record dropped
CollectDropFailed(k) ==
    /\ pc = "as_completed"
    /\ k \in InState("done")
    /\ LET url == futures[k].url
           i == Cardinality(InState("yielded"))
           data == futures[k].result.data
           error == futures[k].result.error
       IN /\ visited_urls' = visited_urls \cup {url}
          /\ error_log' = IF Truthy(error)
                          THEN Append(error_log, WarningLine(url, error))
                          ELSE error_log
          /\ all_data' = IF Truthy(error)
                         THEN all_data
                         ELSE Append(all_data, SetUrl(data, url))
          /\ futures' = [futures EXCEPT ![k].state = "yielded"]
          /\ progress_log' = Append(progress_log,
                                    [num |-> i + 1, den |-> total_urls])
    /\ UNCHANGED << args, flaky, pc, urls_to_visit, new_links, total_urls,
                    fetch_log, link_calls, link_response, fault, result >>

\* faulty variant: the progress is computed from the future's place in the
\* worklist instead of the count of completed futures
CollectProgressByIndex(k) ==
    /\ pc = "as_completed"
    /\ k \in InState("done")
    /\ LET url == futures[k].url
           data == futures[k].result.data
           error == futures[k].result.error
       IN /\ visited_urls' = visited_urls \cup {url}
          /\ error_log' = IF Truthy(error)
                          THEN Append(error_log, WarningLine(url, error))
                          ELSE error_log
          /\ all_data' = Append(all_data, SetUrl(data, url))
          /\ futures' = [futures EXCEPT ![k].state = "yielded",
                                        ![k].result.data = SetUrl(data, url)]
          /\ progress_log' = Append(progress_log,
                                    [num |-> k, den |-> total_urls])
    /\ UNCHANGED << args, fault, flaky, pc, urls_to_visit, new_links,
                    total_urls, fetch_log, link_calls, link_response,
                    result >>

\* faulty variant: the URL is taken from the work list by completion count
CollectByPosition(k) ==
    /\ pc = "as_completed"
    /\ k \in InState("done")
    /\ LET i == Cardinality(InState("yielded"))
           url == urls_to_visit[i + 1]
           data == futures[k].result.data
           error == futures[k].result.error
       IN /\ visited_urls' = visited_urls \cup {url}
          /\ error_log' = IF Truthy(error)
                          THEN Append(error_log, WarningLine(url, error))
                          ELSE error_log
          /\ all_data' = Append(all_data, SetUrl(data, url))
          /\ futures' = [futures EXCEPT ![k].state = "yielded",
                                        ![k].result.data = SetUrl(data, url)]
          /\ progress_log' = Append(progress_log,
                                    [num |-> i + 1, den |-> total_urls])
    /\ UNCHANGED << args, flaky, pc, urls_to_visit, new_links, total_urls,
                    fetch_log, link_calls, link_response, fault, result >>

\* one iteration of the loop over as_completed, for the done future k
Collect(k) ==
    /\ pc = "as_completed"
    /\ k \in InState("done")
    /\ LET url == futures[k].url
           i == Cardinality(InState("yielded"))
           data == futures[k].result.data
           error == futures[k].result.error
       IN /\ visited_urls' = visited_urls \cup {url}
          /\ error_log' = IF Truthy(error)
                          THEN Append(error_log, WarningLine(url, error))
                          ELSE error_log
          /\ all_data' = Append(all_data, SetUrl(data, url))
          /\ futures' = [futures EXCEPT ![k].state = "yielded",
                                        ![k].result.data = SetUrl(data, url)]
          /\ progress_log' = Append(progress_log,
                                    [num |-> i + 1, den |-> total_urls])
    /\ UNCHANGED << args, flaky, pc, urls_to_visit, new_links, total_urls,
                    fetch_log, link_calls, link_response, fault, result >>

\* faulty variant: only the pages without error are counted
ResultMsgSuccessOnly(records, log) ==
    ("Successfully scraped " \o ToString(Len(records) - Len(log)) \o " pages")
    \o (IF log # << >>
        THEN "\nWarnings: " \o ToString(Len(log)) \o " pages had errors"
        ELSE "")

\* lines 202-204
ResultMsg(records, log) ==
    ("Successfully scraped " \o ToString(Len(records)) \o " pages")
    \o (IF log # << >>
        THEN "\nWarnings: " \o ToString(Len(log)) \o " pages had errors"
        ELSE "")

\* as_completed is exhausted, the pool shuts down, lines 202-206 return
Return ==
    /\ pc = "as_completed"
    /\ \A k \in 1..Len(futures) : futures[k].state = "yielded"
    /\ result' = [records |-> all_data,
                  message |-> ResultMsg(all_data, error_log)]
    /\ pc' = "done"
    /\ UNCHANGED << args, flaky, urls_to_visit, new_links, total_urls,
                    futures, visited_urls, all_data, error_log,
                    progress_log, fetch_log, link_calls, link_response, fault >>

Next ==
    \/ ReturnInvalid
    \/ Begin
    \/ \E response \in Responses : CollectLinks(response)
    \/ SkipLinks
    \/ Submit
    \/ \E k \in 1..Len(futures) : WorkerStart(k)
    \/ \E k \in 1..Len(futures) : \E response \in Responses :
           WorkerFinish(k, response)
    \/ \E k \in 1..Len(futures) : Collect(k)
    \/ Return

Spec == Init /\ [][Next]_vars

SpecWide == InitWide /\ [][Next]_vars

(***************************************************************************)
(* Exceptions inside the try block, lines 152-200.                         *)
(***************************************************************************)
FaultCauses == {"cannot schedule new futures"}

\* ', '.join(error_log)
RECURSIVE Join(_)
Join(log) ==
    IF log = << >>
    THEN ""
    ELSE IF Len(log) = 1
         THEN log[1]
         ELSE log[1] \o ", " \o Join(Tail(log))

\* lines 197-199
ErrorMsg(cause, log) ==
    ("Error during scraping: " \o cause)
    \o (IF log # << >> THEN "\nAdditional errors: " \o Join(log) ELSE "")

\* an exception leaves the loop over as_completed (outside the inner try):
\* the with block is left and the pool shuts down
LoopFault(cause) ==
    /\ pc = "as_completed"
    /\ fault' = cause
    /\ pc' = "shutdown"
    /\ UNCHANGED << args, flaky, urls_to_visit, new_links, total_urls,
                    futures, visited_urls, all_data, error_log,
                    progress_log, fetch_log, link_calls, link_response,
                    result >>

\* one iteration in which the progress update (lines 189-191) raises: the
\* record is appended already, line 194 logs the exception and the loop
\* goes on
CollectFault(k, cause) ==
    /\ pc = "as_completed"
    /\ k \in InState("done")
    /\ Cardinality(InState("yielded")) - Len(progress_log) < MaxFaults
    /\ LET url == futures[k].url
           data == futures[k].result.data
           error == futures[k].result.error
       IN /\ visited_urls' = visited_urls \cup {url}
          /\ error_log' =
                 Append(IF Truthy(error)
                        THEN Append(error_log, WarningLine(url, error))
                        ELSE error_log,
                        "Error processing " \o url \o ": " \o cause)
          /\ all_data' = Append(all_data, SetUrl(data, url))
          /\ futures' = [futures EXCEPT ![k].state = "yielded",
                                        ![k].result.data = SetUrl(data, url)]
    /\ UNCHANGED << args, fault, flaky, pc, urls_to_visit, new_links,
                    total_urls, progress_log, fetch_log, link_calls,
                    link_response, result >>

\* shutdown(wait=True): every submitted work item has run
PoolIdle == InState("pending") = {} /\ InState("running") = {}

\* faulty variant: pd.DataFrame() is returned instead of the records
ReturnErrorEmpty ==
    /\ pc = "shutdown"
    /\ PoolIdle
    /\ result' = [records |-> << >>, message |-> ErrorMsg(fault, error_log)]
    /\ pc' = "done"
    /\ UNCHANGED << args, fault, flaky, urls_to_visit, new_links,
                    total_urls, futures, visited_urls, all_data, error_log,
                    progress_log, fetch_log, link_calls, link_response >>

\* faulty variant: shutdown(wait=False), the return does not wait
ReturnErrorNoWait ==
    /\ pc = "shutdown"
    /\ result' = [records |-> all_data,
                  message |-> ErrorMsg(fault, error_log)]
    /\ pc' = "done"
    /\ UNCHANGED << args, fault, flaky, urls_to_visit, new_links,
                    total_urls, futures, visited_urls, all_data, error_log,
                    progress_log, fetch_log, link_calls, link_response >>

\* the pool has shut down; lines 196-200 return
ReturnError ==
    /\ pc = "shutdown"
    /\ PoolIdle
    /\ result' = [records |-> all_data,
                  message |-> ErrorMsg(fault, error_log)]
    /\ pc' = "done"
    /\ UNCHANGED << args, fault, flaky, urls_to_visit, new_links,
                    total_urls, futures, visited_urls, all_data, error_log,
                    progress_log, fetch_log, link_calls, link_response >>

\* the steps of the thread that runs scrape_website
Orchestrator ==
    \/ ReturnInvalid
    \/ Begin
    \/ \E response \in Responses : CollectLinks(response)
    \/ SkipLinks
    \/ Submit
    \/ \E k \in 1..Len(futures) : Collect(k)
    \/ Return
    \/ ReturnError

NextFault ==
    \/ Next
    \/ \E cause \in FaultCauses : LoopFault(cause)
    \/ \E k \in 1..Len(futures) : \E cause \in FaultCauses :
           CollectFault(k, cause)
    \/ ReturnError

\* one rule set, one hash seed and the small failure budget; any start URL,
\* page and page cap
InitFault ==
    /\ start_url \in StartURLs
    /\ selectors = RulesTitle
    /\ max_pages \in 1..MaxPageCap
    /\ crawl_same_domain \in BOOLEAN
    /\ anchors \in Pages
    /\ hash_seed = 1
    /\ flaky = WideFailures
    /\ Locals

\* the threads keep running, and every GET answers or times out
SpecFault ==
    /\ InitFault
    /\ [][NextFault]_vars
    /\ WF_vars(Orchestrator)
    /\ WF_vars(\E k \in 1..Len(futures) : WorkerStart(k))
    /\ WF_vars(\E k \in 1..Len(futures) : \E response \in Responses :
                   WorkerFinish(k, response))

TypeOK ==
    /\ pc \in {"start", "collect", "submit", "as_completed", "shutdown",
              "done"}
    /\ Len(urls_to_visit) <= max_pages
    /\ link_calls \in 0..1
    /\ flaky >= 0

(***************************************************************************)
(* Vocabulary of the properties.                                           *)
(***************************************************************************)
\* the start URLs that lack a scheme or a host
LackSchemeOrHost == {"not a url", "a.com/p1", "https:///p1"}

WellFormedStart == start_url \notin LackSchemeOrHost \cup {"http://[a.com"}

ReturnedEarly == pc = "done" /\ result.message = "Invalid URL provided"

WorklistBuilt ==
    pc \in {"submit", "as_completed", "shutdown", "done"} /\ ~ ReturnedEarly

Dispatched == pc \in {"as_completed", "shutdown", "done"} /\ ~ ReturnedEarly

NoDuplicates(seq) == \A a, b \in 1..Len(seq) : a # b => seq[a] # seq[b]

UrlsOf(records) == [j \in 1..Len(records) |-> records[j]["url"]]

FailedFetch(k) ==
    \/ futures[k].response.kind = "exc"
    \/ futures[k].response.kind = "http" /\ futures[k].response.status # 200

LinkFetchOk == link_response.kind = "http" /\ link_response.status = 200

\* the error that came with record j of all_data
ErrorOf(j) ==
    futures[CHOOSE k \in 1..Len(futures) :
                futures[k].url = all_data[j]["url"]].result.error

Errored == {j \in 1..Len(all_data) : ErrorOf(j) \notin {None, ""}}

ScrapedLine(n) == "Successfully scraped " \o ToString(n) \o " pages"

WarningsLine(n) == "\nWarnings: " \o ToString(n) \o " pages had errors"

\* the same-host links of the start page in the order of their first
\* appearance on the page
RECURSIVE FirstSeen(_, _)
FirstSeen(seen, hrefs) ==
    IF hrefs = << >>
    THEN seen
    ELSE LET full_url == urljoin(start_url, Head(hrefs))
         IN FirstSeen(IF urlparse(full_url).netloc = "a.com"
                         /\ full_url \notin Range(seen)
                      THEN Append(seen, full_url)
                      ELSE seen,
                      Tail(hrefs))

Prefix(seq, n) == [j \in 1..(IF n < Len(seq) THEN n ELSE Len(seq)) |-> seq[j]]

(***************************************************************************)
(* C1: when the crawl has returned, there is exactly one record per        *)
(* worklist entry, no two records are for the same entry, and the          *)
(* progress bar has been advanced once per entry, to 1/N, 2/N, ..., N/N;   *)
(* this for worklists longer than the pool is wide and for every order of  *)
(* completion.  On the way, progress and records advance together.         *)
(***************************************************************************)
Thm_C1 ==
    /\ NoDuplicates(UrlsOf(all_data))
    /\ Len(progress_log) = Len(all_data)
    /\ \A j \in 1..Len(progress_log) :
           progress_log[j] = [num |-> j, den |-> Len(urls_to_visit)]
    /\ pc = "done" =>
           /\ Len(result.records) = Len(urls_to_visit)
           /\ NoDuplicates(UrlsOf(result.records))
           /\ Range(UrlsOf(result.records)) = Range(urls_to_visit)
           /\ Len(progress_log) = Len(urls_to_visit)

Wit_C1 ==
    /\ pc = "done"
    /\ Len(urls_to_visit) > PoolWidth
    /\ UrlsOf(result.records) # urls_to_visit
    /\ \E k \in 1..Len(futures) : FailedFetch(k)

(***************************************************************************)
(* C2: whatever mix of successes, fetch errors and non-200 answers the     *)
(* pages give, a crawl of a well-formed start URL returns on the success   *)
(* path, with one record for every worklist entry.                         *)
(***************************************************************************)
Thm_C2 ==
    (pc = "done" /\ WellFormedStart) =>
        /\ Len(result.records) = Len(urls_to_visit)
        /\ Range(UrlsOf(result.records)) = Range(urls_to_visit)
        /\ \E w \in 0..Len(urls_to_visit) :
               result.message =
                   ScrapedLine(Len(urls_to_visit))
                   \o (IF w = 0 THEN "" ELSE WarningsLine(w))

Wit_C2 ==
    /\ pc = "done"
    /\ \E a, b, c \in 1..Len(futures) :
           /\ futures[a].response.kind = "exc"
           /\ futures[b].response.kind = "http"
           /\ futures[b].response.status = 404
           /\ futures[c].response.kind = "http"
           /\ futures[c].response.status = 200
    /\ Len(result.records) = 3

(***************************************************************************)
(* C3: the worklist handed to the pool holds no URL twice and is never     *)
(* longer than max_pages.                                                  *)
(***************************************************************************)
Thm_C3 ==
    WorklistBuilt =>
        /\ NoDuplicates(urls_to_visit)
        /\ Len(urls_to_visit) <= max_pages
        /\ Dispatched =>
               [k \in 1..Len(futures) |-> futures[k].url] = urls_to_visit

Wit_C3 ==
    /\ pc = "as_completed"
    /\ anchors = PageMixed
    /\ start_url \in Range(new_links)
    /\ Len(new_links) > max_pages
    /\ Len(futures) = max_pages
    /\ max_pages > 1

(***************************************************************************)
(* C4: a start URL without a scheme or without a host returns no records   *)
(* and the summary "Invalid URL provided", and nothing is fetched,         *)
(* collected or dispatched.                                                *)
(***************************************************************************)
Thm_C4 ==
    start_url \in LackSchemeOrHost =>
        /\ pc \in {"start", "done"}
        /\ fetch_log = << >>
        /\ link_calls = 0
        /\ futures = << >>
        /\ pc = "done" =>
               result = [records |-> << >>, message |-> "Invalid URL provided"]

Wit_C4 ==
    /\ pc = "done"
    /\ start_url = "https:///p1"
    /\ crawl_same_domain
    /\ anchors = PageFive

(***************************************************************************)
(* C5: without crawl_same_domain a well-formed start URL gives the         *)
(* worklist [start_url]: get_all_links is never called and exactly one     *)
(* page extraction is dispatched.                                          *)
(***************************************************************************)
Thm_C5 ==
    (WellFormedStart /\ ~ crawl_same_domain) =>
        /\ link_calls = 0
        /\ WorklistBuilt => urls_to_visit = << start_url >>
        /\ Dispatched => Len(futures) = 1 /\ futures[1].url = start_url
        /\ Len(fetch_log) <= 1
        /\ pc = "done" => fetch_log = << start_url >>

Wit_C5 ==
    /\ pc = "done"
    /\ ~ crawl_same_domain
    /\ anchors = PageFive
    /\ max_pages > 1
    /\ Len(result.records) = 1

(***************************************************************************)
(* C6: when the fetch fails or answers anything but 200, extract_data      *)
(* returns "N/A" for every rule name and the error "Error: HTTP <code>"    *)
(* or "Error: <cause>".                                                    *)
(***************************************************************************)
Thm_C6 ==
    \A k \in 1..Len(futures) :
        (futures[k].state = "done" /\ FailedFetch(k)) =>
            /\ futures[k].result.data = [name \in DOMAIN selectors |-> "N/A"]
            /\ futures[k].result.error \notin {None, ""}
            /\ futures[k].response.kind = "http" =>
                   futures[k].result.error =
                       "Error: HTTP " \o ToString(futures[k].response.status)
            /\ futures[k].response.kind = "exc" =>
                   futures[k].result.error =
                       "Error: " \o futures[k].response.cause

Wit_C6 ==
    \E k, j \in 1..Len(futures) :
        /\ futures[k].state = "done"
        /\ futures[k].response.kind = "http"
        /\ futures[k].response.status = 204
        /\ futures[j].state = "done"
        /\ futures[j].response.kind = "exc"

(***************************************************************************)
(* C7: with crawl_same_domain the start URL is the first worklist entry,   *)
(* whatever max_pages >= 1 is; with max_pages = 2 and five distinct        *)
(* same-host links on the start page the worklist is the start URL and     *)
(* one of the five.                                                        *)
(***************************************************************************)
Thm_C7 ==
    (crawl_same_domain /\ WorklistBuilt) =>
        /\ Len(urls_to_visit) >= 1
        /\ urls_to_visit[1] = start_url
        /\ (max_pages = 2 /\ anchors = PageFive /\ LinkFetchOk) =>
               /\ Len(urls_to_visit) = 2
               /\ urls_to_visit[2] \in
                      {"https://a.com/p1", "https://a.com/p2",
                       "https://a.com/p3", "https://a.com/p4",
                       "https://a.com/p5"}

Wit_C7 ==
    /\ crawl_same_domain
    /\ pc = "submit"
    /\ max_pages = 2
    /\ anchors = PageFive
    /\ LinkFetchOk
    /\ Len(new_links) = 5

(***************************************************************************)
(* C8, as claimed: the worklist is the start URL followed by the links in  *)
(* the order of their first appearance on the start page, cut to           *)
(* max_pages.                                                              *)
(***************************************************************************)
Orig_C8 ==
    (crawl_same_domain /\ WorklistBuilt /\ LinkFetchOk) =>
        urls_to_visit =
            Prefix(FirstSeen(<< start_url >>, anchors), max_pages)

(***************************************************************************)
(* C8, amended: the worklist is the start URL followed by the links in     *)
(* the order in which get_all_links returned them, cut to max_pages; what  *)
(* get_all_links returns is the set of the page's same-host links, each    *)
(* once, in an order of its own.                                           *)
(***************************************************************************)
Thm_C8 ==
    (crawl_same_domain /\ WorklistBuilt) =>
        /\ urls_to_visit =
               Prefix(<< start_url >>
                      \o SelectSeq(new_links, LAMBDA u : u # start_url),
                      max_pages)
        /\ NoDuplicates(new_links)
        /\ LinkFetchOk =>
               Range(new_links) \cup {start_url}
                   = Range(FirstSeen(<< start_url >>, anchors))

Wit_C8 ==
    /\ crawl_same_domain
    /\ pc = "submit"
    /\ LinkFetchOk
    /\ max_pages = 3
    /\ Len(new_links) = 5
    /\ urls_to_visit # Prefix(FirstSeen(<< start_url >>, anchors), max_pages)

(***************************************************************************)
(* C9: the summary of a completed crawl is "Successfully scraped N pages"  *)
(* with N the number of records returned, followed by the warning count    *)
(* exactly when a warning was recorded.                                    *)
(***************************************************************************)
Thm_C9 ==
    (pc = "done" /\ WellFormedStart) =>
        /\ error_log = << >> =>
               result.message = ScrapedLine(Len(result.records))
        /\ error_log # << >> =>
               result.message = ScrapedLine(Len(result.records))
                                \o WarningsLine(Len(error_log))

Wit_C9 ==
    /\ pc = "done"
    /\ Len(result.records) = 2
    /\ Len(error_log) = 1
    /\ result.message
           = "Successfully scraped 2 pages\nWarnings: 1 pages had errors"

(***************************************************************************)
(* C10: at every moment the warnings are exactly the lines of the records  *)
(* appended with a non-empty error, one line per such record; so the       *)
(* count in the summary is the number of records with an error.            *)
(***************************************************************************)
Thm_C10 ==
    /\ Range(error_log) =
           {"Error on " \o all_data[j]["url"] \o ": " \o ErrorOf(j) :
               j \in Errored}
    /\ Len(error_log) = Cardinality(Errored)
    /\ (pc = "done" /\ Errored # {}) =>
           result.message = ScrapedLine(Len(all_data))
                            \o WarningsLine(Cardinality(Errored))

Wit_C10 ==
    /\ pc = "as_completed"
    /\ Len(error_log) = 1
    /\ Len(all_data) = 2
    /\ \E k \in 1..Len(futures) : futures[k].state = "done" /\ FailedFetch(k)

\* the progress last reported, as a count of pages
Progress ==
    IF progress_log = << >> THEN 0 ELSE progress_log[Len(progress_log)].num

Completed == Cardinality(InState("yielded"))

(***************************************************************************)
(* C11: the reported progress never decreases; it goes up by exactly one   *)
(* in the steps in which an invocation's result is taken, and in no        *)
(* other step; it never exceeds the worklist length and equals it when     *)
(* the crawl has returned.                                                 *)
(***************************************************************************)
Thm_C11 ==
    /\ [](/\ Progress <= Len(urls_to_visit)
          /\ Progress = Completed
          /\ (pc = "done" /\ ~ ReturnedEarly) =>
                 Progress = Len(urls_to_visit))
    /\ [][/\ Progress' >= Progress
          /\ Completed' = Completed + 1 => Progress' = Progress + 1
          /\ Completed' = Completed => progress_log' = progress_log]_vars

Wit_C11 ==
    /\ pc = "done"
    /\ Progress = 3
    /\ UrlsOf(all_data) # urls_to_visit
    /\ error_log # << >>

(***************************************************************************)
(* C12: never more than 5 invocations of extract_data are running at the   *)
(* same time, however long the worklist is; the entries beyond them are    *)
(* still queued.                                                           *)
(***************************************************************************)
Thm_C12 ==
    /\ Cardinality(InState("running")) <= 5
    /\ Cardinality(InState("running")) + Cardinality(InState("pending"))
           + Cardinality(InState("done")) + Cardinality(InState("yielded"))
       = Len(futures)

Wit_C12 ==
    /\ Len(futures) = 6
    /\ Cardinality(InState("running")) = 5
    /\ InState("pending") = {6}

\* the step is taken by a worker thread
WorkerStep ==
    \/ InState("running")' # InState("running")
    \/ InState("pending")' # InState("pending")

(***************************************************************************)
(* C13: records, warnings and progress are written by one writer at a      *)
(* time: a step that changes any of them is not a worker's step, takes     *)
(* the result of exactly one future and appends exactly one record; and    *)
(* every record in all_data is whole: it has its url and every field.      *)
(***************************************************************************)
Thm_C13 ==
    /\ [](\A j \in 1..Len(all_data) :
              /\ DOMAIN all_data[j] = DOMAIN selectors \cup {"url"}
              /\ all_data[j]["url"] \in Range(urls_to_visit))
    /\ [][(\/ all_data' # all_data
           \/ error_log' # error_log
           \/ progress_log' # progress_log) =>
              /\ ~ WorkerStep
              /\ Completed' = Completed + 1
              /\ Len(all_data') = Len(all_data) + 1
              /\ SubSeq(all_data', 1, Len(all_data)) = all_data
              /\ Len(progress_log') = Len(progress_log) + 1
              /\ Len(error_log') \in {Len(error_log), Len(error_log) + 1}
         ]_vars

Wit_C13 ==
    /\ pc = "as_completed"
    /\ Len(all_data) = 1
    /\ InState("running") # {}
    /\ InState("done") # {}
    /\ selectors = RulesMixed

\* the host of a netloc: the netloc without its port
hostname(netloc) == IF netloc = "a.com:8080" THEN "a.com" ELSE netloc

HostOf(url) == hostname(urlparse(url).netloc)

(***************************************************************************)
(* C14: every URL of the worklist, and so every URL dispatched or          *)
(* fetched, has the host of the start URL.                                 *)
(***************************************************************************)
Thm_C14 ==
    /\ \A u \in Range(urls_to_visit) : HostOf(u) = HostOf(start_url)
    /\ \A k \in 1..Len(futures) : HostOf(futures[k].url) = HostOf(start_url)
    /\ \A u \in Range(fetch_log) : HostOf(u) = HostOf(start_url)
    /\ \A u \in Range(new_links) : HostOf(u) = HostOf(start_url)

Wit_C14 ==
    /\ pc = "as_completed"
    /\ anchors = PageMixed
    /\ LinkFetchOk
    /\ "http://a.com/p1" \in Range(urls_to_visit)
    /\ Len(fetch_log) = 4

(***************************************************************************)
(* C15: when the GET of get_all_links fails or answers anything but 200,   *)
(* get_all_links returns no link and the crawl goes on with the worklist   *)
(* [start_url]: the start page is dispatched and the crawl returns its     *)
(* record on the success path.                                             *)
(***************************************************************************)
Thm_C15 ==
    (link_calls = 1 /\ ~ LinkFetchOk) =>
        /\ new_links = << >>
        /\ fault = None
        /\ pc \in {"submit", "as_completed", "done"}
        /\ urls_to_visit = << start_url >>
        /\ Dispatched => Len(futures) = 1 /\ futures[1].url = start_url
        /\ pc = "done" =>
               /\ UrlsOf(result.records) = << start_url >>
               /\ \E w \in 0..1 :
                      result.message =
                          ScrapedLine(1)
                          \o (IF w = 0 THEN "" ELSE WarningsLine(w))

Wit_C15 ==
    /\ pc = "done"
    /\ crawl_same_domain
    /\ link_response.kind = "exc"
    /\ anchors = PageFive
    /\ max_pages = 3
    /\ futures[1].response.kind = "http"
    /\ futures[1].response.status = 200

Aborted == fault # None

(***************************************************************************)
(* C16: when an exception aborts the crawl after the dispatch, the crawl   *)
(* returns exactly the records appended before the exception: none is      *)
(* appended after it, and what is returned is all_data, with the summary   *)
(* "Error during scraping: ..." and never "Successfully scraped ...".      *)
(***************************************************************************)
Thm_C16 ==
    /\ []((Aborted /\ pc = "done") =>
              /\ result.records = all_data
              /\ result.message =
                     ("Error during scraping: " \o fault)
                     \o (IF error_log = << >>
                         THEN ""
                         ELSE "\nAdditional errors: " \o Join(error_log))
              /\ \A n, w \in 0..Len(urls_to_visit) :
                     result.message #
                         ScrapedLine(n)
                         \o (IF w = 0 THEN "" ELSE WarningsLine(w)))
    /\ [][Aborted' => all_data' = all_data /\ error_log' = error_log]_vars

Wit_C16 ==
    /\ pc = "done"
    /\ Aborted
    /\ Len(result.records) = 1
    /\ Len(futures) = 3
    /\ error_log # << >>

(***************************************************************************)
(* C17: once the pages are dispatched nothing stops the crawl before it    *)
(* returns, and it returns only when every dispatched extraction has       *)
(* completed: no future is still queued or running at the return, on the   *)
(* normal path and on the aborted one.                                     *)
(***************************************************************************)
Thm_C17 ==
    /\ (Dispatched ~> pc = "done")
    /\ []((pc = "done" /\ ~ ReturnedEarly) =>
              /\ PoolIdle
              /\ \A k \in 1..Len(futures) :
                     futures[k].state \in {"done", "yielded"})
    /\ [][pc = "done" => UNCHANGED vars]_vars

Wit_C17 ==
    /\ pc = "done"
    /\ Aborted
    /\ Len(futures) = 3
    /\ Len(all_data) = 0
    /\ InState("done") = 1..3

\* the GETs issued by extract_data: fetch_log without the link-discovery GET
ExtractorFetches == SubSeq(fetch_log, link_calls + 1, Len(fetch_log))

Count(seq, x) == Cardinality({i \in 1..Len(seq) : seq[i] = x})

(***************************************************************************)
(* C18: there is one extraction per work-list entry and each extraction    *)
(* issues one GET: a started extraction has fetched its URL exactly once,  *)
(* whether the GET succeeded or failed, a queued one not yet, and at the   *)
(* return the extractor's GETs are as many as the work-list entries.       *)
(***************************************************************************)
Thm_C18 ==
    Dispatched =>
        /\ Len(futures) = Len(urls_to_visit)
        /\ \A k \in 1..Len(futures) :
               /\ futures[k].url = urls_to_visit[k]
               /\ Count(ExtractorFetches, futures[k].url) =
                      (IF futures[k].state = "pending" THEN 0 ELSE 1)
        /\ Len(ExtractorFetches) =
               Len(futures) - Cardinality(InState("pending"))
        /\ pc = "done" => Len(ExtractorFetches) = Len(urls_to_visit)

Wit_C18 ==
    /\ pc = "done"
    /\ link_calls = 1
    /\ Len(urls_to_visit) = 3
    /\ \E k \in 1..3 : FailedFetch(k)
    /\ Len(ExtractorFetches) = 3

\* the invocation whose URL record j carries
FutureOf(j) ==
    CHOOSE k \in 1..Len(futures) : futures[k].url = result.records[j]["url"]

\* what extract_data returned for the invocation behind record j
Extracted(j) ==
    extract_data(futures[FutureOf(j)].url, selectors,
                 futures[FutureOf(j)].response)

(***************************************************************************)
(* C19: for every rule set, one with a rule named "url" included, every    *)
(* returned record holds under each rule name the value extract_data       *)
(* produced for that rule ("N/A" on failure): attaching the page URL       *)
(* replaces no rule's value.  The code does not keep this: line 185 stores *)
(* the page URL under the key "url" of the same dictionary.                *)
(***************************************************************************)
Orig_C19 ==
    (pc = "done" /\ ~ ReturnedEarly) =>
        \A j \in 1..Len(result.records) :
            \A name \in DOMAIN selectors :
                result.records[j][name] = Extracted(j).data[name]

\* the invocation that was given the URL of the j-th appended record
InvocationOf(j) ==
    CHOOSE k \in 1..Len(futures) : futures[k].url = all_data[j]["url"]

\* what that invocation returned: extract_data on its own URL and response
ReturnedBy(j) ==
    extract_data(futures[InvocationOf(j)].url, selectors,
                 futures[InvocationOf(j)].response)

\* the records whose invocation returned an error, and the n-th of them
WithError == {j \in 1..Len(all_data) : Truthy(ReturnedBy(j).error)}

NthWithError(n) ==
    CHOOSE j \in WithError : Cardinality({i \in WithError : i <= j}) = n

(***************************************************************************)
(* C20: in every order of completion, the url of each record is the URL    *)
(* given to the invocation that produced the record's fields and error:    *)
(* the fields are what extract_data returned for that URL and its          *)
(* response, and the warning lines are, in order, one per record with an   *)
(* error, each naming that record's URL and its error.                     *)
(***************************************************************************)
Thm_C20 ==
    Dispatched =>
        /\ \A j \in 1..Len(all_data) :
               /\ futures[InvocationOf(j)].state = "yielded"
               /\ \A name \in DOMAIN selectors \ {"url"} :
                      all_data[j][name] = ReturnedBy(j).data[name]
        /\ Len(error_log) = Cardinality(WithError)
        /\ \A n \in 1..Len(error_log) :
               error_log[n] =
                   WarningLine(all_data[NthWithError(n)]["url"],
                               ReturnedBy(NthWithError(n)).error)

Wit_C20 ==
    /\ pc = "done"
    /\ Len(all_data) = 3
    /\ all_data[1]["url"] = urls_to_visit[3]
    /\ all_data[3]["url"] = Home
    /\ selectors = RulesTitle
    /\ all_data[3]["title"] = "Home"
    /\ all_data[1]["title"] = NotFound
    /\ Len(error_log) = 1
    /\ 1 \in WithError

====
